---- MODULE Spec2Model ----
(***************************************************************************)
(* State-machine model of src/rec.py: the key-service client (get_keys),   *)
(* the segmentation planner (detect_key_change_time,                       *)
(* generate_time_segments) and the job handler (handle_message) with the   *)
(* external tools it drives (download_segment, decrypt_and_merge, the      *)
(* concatenation ffmpeg run, the upload).                                  *)
(*                                                                         *)
(* Times are seconds on the local clock (a multiple of 900 is a quarter    *)
(* hour), file sizes are pairs <<q, r>> standing for q * MiB + r bytes.    *)
(***************************************************************************)
EXTENDS Integers, Sequences, FiniteSets, TLC

\* ------------------------------------------------------------------ bounds

\* The key service rotates its key at most this often during one sampling.
MaxRotations == 2

\* The number of messages the bot handles in a run of several jobs.
MaxJobs == 2

\* ------------------------------------------------------- program constants

max_attempts == 3
interval == 300
sample_window == 60
quarter_minutes == 15
max_hours == 6
MiB == 1048576
max_MiB == 2048
max_retries == 3
initial_retry_delay == 5

\* ------------------------------------------------------------------ inputs

Keys == {"A", "B"}

\* What one HTTP query of the key service can produce: an exception
\* (transport error, non-2xx, malformed body), an empty key list, or a list
\* whose first record carries the given key.
Responses == {"error", "empty"} \cup Keys

\* How one run of an external tool can end.
ToolOutcomes == {"ok", "timeout", "exit"}

\* How one upload attempt can end.
UploadOutcomes == {"ok", "error"}

\* Requested ranges as <<start, duration>> in minutes (11:00 is minute 660):
\* starts on and off a quarter hour, durations below and above one slice,
\* the 90 minutes from 11:00 to 12:30, and ranges the intake rejects.
Ranges == {<<660, 5>>, <<660, 20>>, <<660, 90>>, <<665, 10>>, <<665, 35>>,
           <<667, 20>>, <<660, 0>>, <<660, -5>>, <<660, 365>>}

\* The text messages the handler can receive, after strptime: a text that
\* does not parse, or a pair of minute-resolution datetimes.
Messages ==
  {[valid |-> FALSE, start_dt |-> 0, end_dt |-> 0]} \cup
  {[valid |-> TRUE, start_dt |-> r[1] * 60, end_dt |-> (r[1] + r[2]) * 60] :
      r \in Ranges}

\* The ranges of a run of several jobs: one sample each, one starting on a
\* quarter hour and one off it, so that two jobs can differ in their files.
JobRanges == {<<660, 5>>, <<665, 5>>}

JobMessages ==
  {[valid |-> TRUE, start_dt |-> r[1] * 60, end_dt |-> (r[1] + r[2]) * 60] :
      r \in JobRanges}

\* Sizes the final artifact can have, as <<q, r>> for q * MiB + r bytes.
Sizes == {<<0, 0>>, <<0, MiB - 1>>, <<1, 0>>, <<100, 5>>,
          <<max_MiB, 0>>, <<max_MiB, 1>>, <<max_MiB + 1, 0>>}

\* ------------------------------------------------------------------- state

VARIABLES
  pc,            \* position of the handler
  start_dt, end_dt, output_dir,
  attempt, gk_log, gk_sleeps, keys, gk_caller, gk_range,
  current_time, previous_key, key_changes,
  samples,       \* the keys the sampling steps observed, in order
  segments, i, key, video_files, audio_files, merged_files,
  cwd, dirs, files, file_list,
  file_size, up_attempt, retry_delay, up_sleeps,
  replies, status, log,
  job_dirs       \* the working directory of every message handled so far

jobVars == <<start_dt, end_dt, output_dir>>
gkVars == <<attempt, gk_log, gk_sleeps, keys, gk_caller, gk_range>>
detVars == <<current_time, previous_key, key_changes, samples>>
segVars == <<segments, key, video_files, audio_files, merged_files>>
upVars == <<file_size, up_attempt, retry_delay, up_sleeps>>

vars == <<pc, start_dt, end_dt, output_dir,
          attempt, gk_log, gk_sleeps, keys, gk_caller, gk_range,
          current_time, previous_key, key_changes, samples,
          segments, i, key, video_files, audio_files, merged_files,
          cwd, dirs, files, file_list,
          file_size, up_attempt, retry_delay, up_sleeps,
          replies, status, log, job_dirs>>

\* ----------------------------------------------------------------- helpers

Min(a, b) == IF a < b THEN a ELSE b

Last(s) == s[Len(s)]

RECURSIVE Pow2(_)
Pow2(n) == IF n = 0 THEN 1 ELSE 2 * Pow2(n - 1)

\* a < b on sizes <<q, r>>.
BytesLT(a, b) == a[1] < b[1] \/ (a[1] = b[1] /\ a[2] < b[2])

\* A file of the file system: directories are named by their depth below
\* the directory the process started in (downloads_<chat> nested dir times).
File(dir, kind, a, b) == [dir |-> dir, kind |-> kind, a |-> a, b |-> b]

Reply(kind, stage, seg) == [kind |-> kind, stage |-> stage, seg |-> seg]

FailReply(stage, seg) == Reply("failed", stage, seg)

Status(text, n, of) == [text |-> text, n |-> n, of |-> of]

LogEntry(stage, seg, outcome) == [stage |-> stage, seg |-> seg, outcome |-> outcome]

\* ------------------------------------------------------------------ get_keys

\* A retry loop that gives up one attempt early.
get_keys_attempt_short(att, resp) ==
  IF resp # "error"
  THEN [returns |-> TRUE, keys |-> resp, sleep |-> 0, attempt |-> att]
  ELSE IF att < max_attempts - 2
       THEN [returns |-> FALSE, keys |-> "None", sleep |-> Pow2(att), attempt |-> att + 1]
       ELSE [returns |-> TRUE, keys |-> "None", sleep |-> 0, attempt |-> att]

\* One iteration of the retry loop: the query's response decides whether
\* the function returns (and what) or sleeps 2 ** attempt and goes on.
get_keys_attempt(att, resp) ==
  IF resp # "error"
  THEN [returns |-> TRUE, keys |-> resp, sleep |-> 0, attempt |-> att]
  ELSE IF att < max_attempts - 1
       THEN [returns |-> FALSE, keys |-> "None", sleep |-> Pow2(att), attempt |-> att + 1]
       ELSE [returns |-> TRUE, keys |-> "None", sleep |-> 0, attempt |-> att]

\* A test for None alone, which lets an empty key list pass.
NotKeys_only_none(k) == k = "None"

\* "not keys" in the callers: None and the empty list are both falsy.
NotKeys(k) == k \in {"None", "empty"}

CallGetKeys(caller, begin, end) ==
  /\ pc' = "get_keys"
  /\ gk_caller' = caller
  /\ gk_range' = <<begin, end>>
  /\ attempt' = 0
  /\ gk_log' = <<>>
  /\ gk_sleeps' = <<>>
  /\ keys' = "None"

\* ----------------------------------------------------------------- planner

\* The loop over key_changes + [end_ts]: a boundary closes a segment only
\* when it lies after the current start.
RECURSIVE SplitAt(_, _, _)
SplitAt(bounds, current_start, acc) ==
  IF bounds = <<>> THEN acc
  ELSE LET change_time == Head(bounds) IN
       IF current_start < change_time
       THEN SplitAt(Tail(bounds), change_time, Append(acc, <<current_start, change_time>>))
       ELSE SplitAt(Tail(bounds), current_start, acc)

\* A start that moves on a quarter hour even from a quarter-hour boundary.
FallbackStart_always_advances(sdt) ==
  LET ct == sdt - (sdt % 60)
      minute == (ct \div 60) % 60
      minutes_to_next == quarter_minutes - (minute % quarter_minutes)
  IN ct + minutes_to_next * 60

\* start_dt with seconds dropped, moved to the next quarter hour unless it
\* is on one.
FallbackStart(sdt) ==
  LET ct == sdt - (sdt % 60)
      minute == (ct \div 60) % 60
      minutes_to_next == quarter_minutes - (minute % quarter_minutes)
  IN IF minutes_to_next < quarter_minutes THEN ct + minutes_to_next * 60 ELSE ct

\* The while loop appending 15-minute slices to the list it is given.
RECURSIVE QuarterSlices(_, _, _)
QuarterSlices(ct, edt, acc) ==
  IF ct < edt
  THEN QuarterSlices(ct + quarter_minutes * 60, edt,
                     Append(acc, <<ct, Min(ct + quarter_minutes * 60, edt)>>))
  ELSE acc

\* A fallback that is also taken when one rotation gave two segments.
FallbackNeeded_one_rotation(segs) == Len(segs) <= 2

FallbackNeeded(segs) == segs = <<>> \/ Len(segs) = 1

generate_time_segments(sdt, edt, changes) ==
  LET segs == SplitAt(changes \o <<edt>>, sdt, <<>>) IN
  IF FallbackNeeded(segs)
  THEN QuarterSlices(FallbackStart(sdt), edt, segs)
  ELSE segs

\* ----------------------------------------------------------- external tools

\* A download that does not count a timeout as a failure.
download_segment_timeout_passes(outcome) ==
  IF outcome = "exit" THEN "False" ELSE "True"

\* A download that reports success whatever the tool did.
download_segment_always_true(outcome) == "True"

\* download_segment: True when yt-dlp exits 0; a timeout and a non-zero
\* exit are both caught and give False.
download_segment(outcome) ==
  IF outcome = "ok" THEN "True" ELSE "False"

\* decrypt_and_merge: True when ffmpeg exits 0.  A timeout falls to the
\* generic handler and gives False; the handler of a non-zero exit formats
\* its log line with the name update, which the function does not have, so
\* a NameError leaves the function.
decrypt_and_merge(outcome) ==
  IF outcome = "ok" THEN "True"
  ELSE IF outcome = "timeout" THEN "False"
  ELSE "raise"

\* The concatenation run inside handle_message: only a non-zero exit is
\* caught; a timeout leaves the handler as an exception.
concatenate(outcome) ==
  IF outcome = "ok" THEN "True"
  ELSE IF outcome = "exit" THEN "False"
  ELSE "raise"

\* A size test that also rejects the two bounds themselves.
SizeOutOfBounds_exclusive(size) ==
  ~BytesLT(<<1, 0>>, size) \/ ~BytesLT(size, <<max_MiB, 0>>)

\* The size test before the upload.
SizeOutOfBounds(size) ==
  BytesLT(size, <<1, 0>>) \/ BytesLT(<<max_MiB, 0>>, size)

\* --------------------------------------------------------------- the handler

Init ==
  /\ pc = "idle"
  /\ start_dt = 0 /\ end_dt = 0 /\ output_dir = 0
  /\ attempt = 0 /\ gk_log = <<>> /\ gk_sleeps = <<>> /\ keys = "None"
  /\ gk_caller = "none" /\ gk_range = <<0, 0>>
  /\ current_time = 0 /\ previous_key = "None" /\ key_changes = <<>>
  /\ samples = <<>> /\ job_dirs = <<>>
  /\ segments = <<>> /\ i = 0 /\ key = "None"
  /\ video_files = <<>> /\ audio_files = <<>> /\ merged_files = <<>>
  /\ cwd = 0 /\ dirs = {} /\ files = {} /\ file_list = <<>>
  /\ file_size = <<0, 0>> /\ up_attempt = 0
  /\ retry_delay = initial_retry_delay /\ up_sleeps = <<>>
  /\ replies = <<>> /\ status = Status("none", 0, 0) /\ log = <<>>

\* Lines 177-210 and the entry into generate_time_segments and
\* detect_key_change_time up to the first key query.
handle_message(m) ==
  /\ pc = "idle"
  /\ output_dir' = cwd + 1
  /\ dirs' = dirs \cup {cwd + 1}
  /\ job_dirs' = Append(job_dirs, cwd + 1)
  /\ UNCHANGED <<segVars, i, cwd, files, file_list, upVars, log>>
  /\ IF ~m.valid
     THEN /\ replies' = Append(replies, Reply("invalid_format", "intake", -1))
          /\ pc' = "done"
          /\ UNCHANGED <<start_dt, end_dt, gkVars, detVars, status>>
     ELSE IF m.start_dt >= m.end_dt \/ m.end_dt - m.start_dt > max_hours * 3600
     THEN /\ replies' = Append(replies, Reply("invalid_range", "intake", -1))
          /\ pc' = "done"
          /\ UNCHANGED <<start_dt, end_dt, gkVars, detVars, status>>
     ELSE /\ replies' = Append(replies, Reply("processing", "intake", -1))
          /\ status' = Status("initializing", 0, 0)
          /\ start_dt' = m.start_dt
          /\ end_dt' = m.end_dt
          /\ current_time' = m.start_dt
          /\ previous_key' = "None"
          /\ key_changes' = <<>>
          /\ samples' = <<>>
          /\ CallGetKeys("detect", m.start_dt, m.start_dt + sample_window)

\* One iteration of the retry loop of get_keys.
get_keys(resp) ==
  /\ pc = "get_keys"
  /\ (gk_caller = "detect" /\ resp \in Keys /\ previous_key # "None"
        /\ resp # previous_key) => Len(key_changes) < MaxRotations
  /\ LET r == get_keys_attempt(attempt, resp) IN
       /\ gk_log' = Append(gk_log, resp)
       /\ gk_sleeps' = IF r.sleep > 0 THEN Append(gk_sleeps, r.sleep) ELSE gk_sleeps
       /\ attempt' = r.attempt
       /\ keys' = r.keys
       /\ pc' = IF r.returns THEN gk_caller ELSE "get_keys"
  /\ UNCHANGED <<jobVars, gk_caller, gk_range, detVars, segVars, i, cwd, dirs,
                 files, file_list, upVars, replies, status, log, job_dirs>>

\* A file list that leaves out the first merged file.
WriteFileList_skips_first(merged) == Tail(merged)

\* Lines 266-268: file_list.txt names every merged file, in list order.
WriteFileList(merged) == merged

\* The head of the segment loop of handle_message for index k: either the
\* next segment starts with its key query, or the loop is over and the
\* handler changes into the working directory and writes file_list.txt.
LoopHead(k, segs, merged, fs) ==
  IF k < Len(segs)
  THEN /\ i' = k
       /\ status' = Status("segment", k + 1, Len(segs))
       /\ CallGetKeys("segment", segs[k + 1][1], segs[k + 1][2])
       /\ cwd' = cwd
       /\ files' = fs
       /\ file_list' = file_list
  ELSE /\ i' = i
       /\ status' = status
       /\ pc' = "concat"
       /\ cwd' = cwd + 1
       /\ files' = fs \cup {File(cwd + 1, "file_list", 0, 0)}
       /\ file_list' = WriteFileList(merged)
       /\ UNCHANGED gkVars

\* A comparison that takes the first sample for a change as well.
KeyChanged_first_sample(previous, current) == current # previous

\* Line 57: a sample is a rotation event when there was a previous key and
\* the key now differs from it.
KeyChanged(previous, current) == previous # "None" /\ current # previous

\* detect_key_change_time after a key query returned (lines 52-64), then,
\* when sampling is over, generate_time_segments (lines 71-91) and the
\* start of the segment loop.  The locals current_time and previous_key end
\* with the call; key_changes is kept as the record of what sampling found.
detect_key_change_time ==
  /\ pc = "detect"
  /\ UNCHANGED <<jobVars, key, video_files, audio_files, merged_files, dirs,
                 upVars, replies, log, job_dirs>>
  /\ IF NotKeys(keys)
     THEN /\ key_changes' = key_changes
          /\ samples' = samples
          /\ previous_key' = "None"
          /\ current_time' = 0
          /\ segments' = generate_time_segments(start_dt, end_dt, key_changes)
          /\ LoopHead(0, segments', merged_files, files)
     ELSE LET current_key == keys
              changes == IF KeyChanged(previous_key, current_key)
                         THEN Append(key_changes, current_time)
                         ELSE key_changes
              next_time == current_time + interval
          IN /\ key_changes' = changes
             /\ samples' = Append(samples, current_key)
             /\ IF next_time < end_dt
                THEN /\ previous_key' = current_key
                     /\ current_time' = next_time
                     /\ CallGetKeys("detect", next_time, next_time + sample_window)
                     /\ UNCHANGED <<segments, i, cwd, files, file_list, status>>
                ELSE /\ previous_key' = "None"
                     /\ current_time' = 0
                     /\ segments' = generate_time_segments(start_dt, end_dt, changes)
                     /\ LoopHead(0, segments', merged_files, files)

\* Lines 235-245: the key query of segment i returned.  On the way on, the
\* record of the finished get_keys call (its attempts and sleeps) is dropped,
\* and so is the record of the samples the planner saw.
segment_keys ==
  /\ pc = "segment"
  /\ samples' = <<>>
  /\ UNCHANGED <<jobVars, keys, gk_caller, gk_range, current_time, previous_key,
                 key_changes, segments,
                 video_files, audio_files, merged_files, i, cwd, dirs, files,
                 file_list, upVars, status, job_dirs>>
  /\ IF NotKeys(keys)
     THEN /\ replies' = Append(replies, FailReply("keys", i))
          /\ log' = Append(log, LogEntry("keys", i, "failed"))
          /\ pc' = "done"
          /\ key' = key
          /\ UNCHANGED <<attempt, gk_log, gk_sleeps>>
     ELSE /\ key' = keys
          /\ log' = Append(log, LogEntry("keys", i, "ok"))
          /\ pc' = "video"
          /\ replies' = replies
          /\ attempt' = 0
          /\ gk_log' = <<>>
          /\ gk_sleeps' = <<>>

\* File names without the segment index.
SegmentFile_no_index(kind) == File(cwd + 1, kind, 0, segments[i + 1][1] \div 60)

\* Lines 243-245: segment_<i>_<kind>_<start of the segment to the minute>.
SegmentFile(kind) == File(cwd + 1, kind, i, segments[i + 1][1] \div 60)

\* Lines 247-248 and 259-261.
download_video(outcome) ==
  /\ pc = "video"
  /\ log' = Append(log, LogEntry("video", i, outcome))
  /\ UNCHANGED <<jobVars, gkVars, detVars, segments, key, audio_files,
                 merged_files, i, cwd, dirs, file_list, upVars, status, job_dirs>>
  /\ IF download_segment(outcome) = "True"
     THEN /\ video_files' = Append(video_files, SegmentFile("video"))
          /\ files' = files \cup {SegmentFile("video")}
          /\ pc' = "audio"
          /\ replies' = replies
     ELSE /\ replies' = Append(replies, FailReply("video", i))
          /\ pc' = "done"
          /\ UNCHANGED <<video_files, files>>

\* Lines 249-250 and 256-258.
download_audio(outcome) ==
  /\ pc = "audio"
  /\ log' = Append(log, LogEntry("audio", i, outcome))
  /\ UNCHANGED <<jobVars, gkVars, detVars, segments, key, video_files,
                 merged_files, i, cwd, dirs, file_list, upVars, status, job_dirs>>
  /\ IF download_segment(outcome) = "True"
     THEN /\ audio_files' = Append(audio_files, SegmentFile("audio"))
          /\ files' = files \cup {SegmentFile("audio")}
          /\ pc' = "merge"
          /\ replies' = replies
     ELSE /\ replies' = Append(replies, FailReply("audio", i))
          /\ pc' = "done"
          /\ UNCHANGED <<audio_files, files>>

\* Lines 251-255, then the loop head for segment i + 1.
merge_segment(outcome) ==
  /\ pc = "merge"
  /\ log' = Append(log, LogEntry("merge", i, outcome))
  /\ UNCHANGED <<jobVars, detVars, segments, key, video_files, audio_files,
                 dirs, upVars, job_dirs>>
  /\ LET ret == decrypt_and_merge(outcome) IN
     IF ret = "True"
     THEN /\ merged_files' = Append(merged_files, SegmentFile("merged"))
          /\ replies' = replies
          /\ LoopHead(i + 1, segments, merged_files',
                      files \cup {SegmentFile("merged")})
     ELSE IF ret = "False"
     THEN /\ replies' = Append(replies, FailReply("merge", i))
          /\ pc' = "done"
          /\ UNCHANGED <<gkVars, merged_files, i, cwd, files, file_list, status>>
     ELSE /\ pc' = "raised"
          /\ UNCHANGED <<gkVars, merged_files, i, cwd, files, file_list, status,
                         replies>>

FinalFile == File(output_dir, "final", start_dt, end_dt)

\* Lines 270-298: the concatenation run, the return to the parent
\* directory, the size test and the switch of the status message.
concatenation(outcome) ==
  /\ pc = "concat"
  /\ log' = Append(log, LogEntry("concat", -1, outcome))
  /\ UNCHANGED <<jobVars, gkVars, detVars, segVars, i, dirs, file_list,
                 up_attempt, retry_delay, up_sleeps, job_dirs>>
  /\ LET ret == concatenate(outcome) IN
     IF ret = "True"
     THEN /\ files' = files \cup {FinalFile}
          /\ cwd' = cwd - 1
          /\ \E size \in Sizes :
               /\ file_size' = size
               /\ IF SizeOutOfBounds(size)
                  THEN /\ replies' = Append(replies, FailReply("size", -1))
                       /\ pc' = "done"
                       /\ status' = status
                  ELSE /\ status' = Status("uploading", 0, 0)
                       /\ pc' = "upload"
                       /\ replies' = replies
     ELSE IF ret = "False"
     THEN /\ replies' = Append(replies, FailReply("concat", -1))
          /\ cwd' = cwd - 1
          /\ pc' = "done"
          /\ UNCHANGED <<files, file_size, status>>
     ELSE /\ pc' = "raised"
          /\ UNCHANGED <<files, file_size, status, replies, cwd>>

\* Lines 352-356: the files the handler recorded, the final file and
\* file_list.txt are removed when they exist; rmdir then needs the
\* directory to be empty.
CleanupTargets ==
  {video_files[k] : k \in 1..Len(video_files)} \cup
  {audio_files[k] : k \in 1..Len(audio_files)} \cup
  {merged_files[k] : k \in 1..Len(merged_files)} \cup
  {FinalFile, File(cwd + 1, "file_list", 0, 0)}

DirEmpty(d, fs, ds) == (\A f \in fs : f.dir # d) /\ (d + 1 \notin ds)

\* A retry test that allows one attempt more.
UploadRetryAllowed_extra(att) == att < max_retries

\* Line 343: a failed upload is retried unless it was the last attempt.
UploadRetryAllowed(att) == att < max_retries - 1

\* One pass of the upload retry loop (lines 317-350); a successful pass is
\* followed by the cleanup (lines 352-357).
upload(outcome) ==
  /\ pc = "upload"
  /\ log' = Append(log, LogEntry("upload", -1, outcome))
  /\ UNCHANGED <<jobVars, gkVars, detVars, segVars, i, cwd, file_list, file_size,
                 job_dirs>>
  /\ IF outcome = "ok"
     THEN /\ replies' = Append(replies, Reply("video", "upload", -1))
          /\ status' = Status("deleted", 0, 0)
          /\ files' = files \ CleanupTargets
          /\ UNCHANGED <<up_attempt, retry_delay, up_sleeps>>
          /\ IF (cwd + 1) \in dirs
             THEN IF DirEmpty(cwd + 1, files', dirs)
                  THEN dirs' = dirs \ {cwd + 1} /\ pc' = "done"
                  ELSE dirs' = dirs /\ pc' = "raised"
             ELSE dirs' = dirs /\ pc' = "done"
     ELSE IF UploadRetryAllowed(up_attempt)
     THEN /\ up_sleeps' = Append(up_sleeps, retry_delay)
          /\ retry_delay' = retry_delay * 2
          /\ up_attempt' = up_attempt + 1
          /\ pc' = "upload"
          /\ UNCHANGED <<replies, status, files, dirs>>
     ELSE /\ replies' = Append(replies, FailReply("upload", -1))
          /\ status' = Status("deleted", 0, 0)
          /\ pc' = "done"
          /\ UNCHANGED <<up_attempt, retry_delay, up_sleeps, files, dirs>>

\* run_polling hands the next message to the handler once the previous call
\* has returned or raised (the exception is logged by the framework).  The
\* handler's locals start afresh; the process's working directory and the
\* file system stay as the previous job left them.  file_list.txt is
\* rewritten from scratch before it is read again.
dispatch ==
  /\ pc \in {"done", "raised"}
  /\ Len(job_dirs) < MaxJobs
  /\ pc' = "idle"
  /\ start_dt' = 0 /\ end_dt' = 0 /\ output_dir' = 0
  /\ attempt' = 0 /\ gk_log' = <<>> /\ gk_sleeps' = <<>> /\ keys' = "None"
  /\ gk_caller' = "none" /\ gk_range' = <<0, 0>>
  /\ current_time' = 0 /\ previous_key' = "None" /\ key_changes' = <<>>
  /\ samples' = <<>>
  /\ segments' = <<>> /\ i' = 0 /\ key' = "None"
  /\ video_files' = <<>> /\ audio_files' = <<>> /\ merged_files' = <<>>
  /\ file_list' = <<>>
  /\ file_size' = <<0, 0>> /\ up_attempt' = 0
  /\ retry_delay' = initial_retry_delay /\ up_sleeps' = <<>>
  /\ replies' = <<>> /\ status' = Status("none", 0, 0) /\ log' = <<>>
  /\ UNCHANGED <<cwd, dirs, files, job_dirs>>

Next ==
  \/ \E m \in Messages : handle_message(m)
  \/ \E resp \in Responses : get_keys(resp)
  \/ detect_key_change_time
  \/ segment_keys
  \/ \E outcome \in ToolOutcomes : download_video(outcome)
  \/ \E outcome \in ToolOutcomes : download_audio(outcome)
  \/ \E outcome \in ToolOutcomes : merge_segment(outcome)
  \/ \E outcome \in ToolOutcomes : concatenation(outcome)
  \/ \E outcome \in UploadOutcomes : upload(outcome)

Spec == Init /\ [][Next]_vars

\* Several messages one after the other, over the small ranges.
NextJobs ==
  \/ \E m \in JobMessages : handle_message(m)
  \/ \E resp \in Responses : get_keys(resp)
  \/ detect_key_change_time
  \/ segment_keys
  \/ \E outcome \in ToolOutcomes : download_video(outcome)
  \/ \E outcome \in ToolOutcomes : download_audio(outcome)
  \/ \E outcome \in ToolOutcomes : merge_segment(outcome)
  \/ \E outcome \in ToolOutcomes : concatenation(outcome)
  \/ \E outcome \in UploadOutcomes : upload(outcome)
  \/ dispatch

SpecJobs == Init /\ [][NextJobs]_vars

TypeOK ==
  /\ pc \in {"idle", "get_keys", "detect", "segment", "video", "audio", "merge",
             "concat", "upload", "done", "raised"}
  /\ attempt \in 0..(max_attempts - 1)
  /\ keys \in {"None", "empty"} \cup Keys
  /\ cwd \in 0..MaxJobs
  /\ Len(key_changes) <= MaxRotations

\* ------------------------------------------------------- claims: vocabulary

\* The intake accepted the message: a job is running or has ended.
JobAccepted == start_dt # 0

\* generate_time_segments has returned its plan to the handler.
Planned ==
  /\ JobAccepted
  /\ pc # "detect"
  /\ ~(pc = "get_keys" /\ gk_caller = "detect")

Terminal == pc \in {"done", "raised"}

SegmentStages == {"keys", "video", "audio", "merge"}

ToolStages == {"video", "audio", "merge", "concat"}

Logged(stage, seg, outcome) ==
  \E p \in 1..Len(log) : log[p] = LogEntry(stage, seg, outcome)

StageLogged(stage) == \E p \in 1..Len(log) : log[p].stage = stage

SegmentSucceeded(k) == \A st \in SegmentStages : Logged(st, k, "ok")

\* The rotation boundaries start, t1, ..., tn, end.
Boundaries == <<start_dt>> \o key_changes \o <<end_dt>>

\* ------------------------------------------------------------------ claims

\* C1: for every valid range the planner's segments are ordered, contiguous
\* and non-overlapping and their union is exactly [start, end): the first
\* begins at start, the last ends at end, each ends where the next begins.
C1_PlanCoversRangeExactly ==
  Planned =>
    /\ Len(segments) >= 1
    /\ segments[1][1] = start_dt
    /\ segments[Len(segments)][2] = end_dt
    /\ \A k \in 1..Len(segments) : segments[k][1] < segments[k][2]
    /\ \A k \in 1..(Len(segments) - 1) : segments[k][2] = segments[k + 1][1]

\* C2: the concatenation tool is invoked only if key fetch, video download,
\* audio download and merge succeeded for every planned segment; a failed
\* segment stage is the last thing the job does.
C2_ConcatOnlyAfterAllSegments ==
  /\ (pc = "concat" \/ StageLogged("concat")) =>
       \A k \in 0..(Len(segments) - 1) : SegmentSucceeded(k)
  /\ \A p \in 1..Len(log) :
       (log[p].stage \in SegmentStages /\ log[p].outcome # "ok") =>
         (p = Len(log) /\ Terminal)

C2_Witness ==
  /\ Logged("concat", -1, "ok")
  /\ Len(segments) >= 3

\* C3: on every path on which the handler returns from an accepted job, the
\* per-segment video, audio and merged files and the working directory are
\* removed.
C3_CleanupOnEveryTerminalPath ==
  (pc = "done" /\ JobAccepted) =>
    /\ \A f \in files : f.kind \notin {"video", "audio", "merged"}
    /\ output_dir \notin dirs

\* C4: when sampling detected zero or one rotation, the plan is the fixed
\* fallback slicing and nothing else: quarter-hour aligned 15-minute steps,
\* the last one clipped to the end of the range.
C4_FallbackAloneUpToOneRotation ==
  (Planned /\ Len(key_changes) <= 1) =>
    segments = QuarterSlices(FallbackStart(start_dt), end_dt, <<>>)

\* C5: when sampling detected rotations t1 < ... < tn (n >= 1) strictly
\* inside (start, end), the plan has exactly n + 1 segments with the
\* boundaries start, t1, ..., tn, end in that order.
C5_RotationBoundaries ==
  (Planned /\ Len(key_changes) >= 1
     /\ \A k \in 1..(Len(Boundaries) - 1) : Boundaries[k] < Boundaries[k + 1]) =>
    /\ Len(segments) = Len(key_changes) + 1
    /\ \A k \in 1..Len(segments) :
         segments[k] = <<Boundaries[k], Boundaries[k + 1]>>

C5_Witness ==
  /\ Planned
  /\ Len(key_changes) = 2
  /\ Len(segments) = 3

\* C6: for 11:00 to 12:30 with no rotation detected the plan is exactly the
\* six 15-minute segments starting 11:00, 11:15, ..., 12:15.
C6_NinetyMinutesSixSegments ==
  (Planned /\ start_dt = 660 * 60 /\ end_dt = 750 * 60 /\ key_changes = <<>>) =>
    segments = [k \in 1..6 |-> <<(660 + 15 * (k - 1)) * 60, (660 + 15 * k) * 60>>]

\* C7: after a successful concatenation a final size below 1 MiB or above
\* 2 GiB ends the job with the size failure and no delivery attempt; a size
\* in [1 MiB, 2 GiB], bounds included, goes on to delivery.
C7_SizeGate ==
  Logged("concat", -1, "ok") =>
    IF \/ file_size[1] < 1
       \/ file_size[1] > 2048
       \/ (file_size[1] = 2048 /\ file_size[2] > 0)
    THEN /\ pc = "done"
         /\ Last(replies) = FailReply("size", -1)
         /\ ~StageLogged("upload")
    ELSE /\ pc = "upload" \/ StageLogged("upload")
         /\ \A p \in 1..Len(replies) : replies[p] # FailReply("size", -1)

C7_Witness ==
  /\ Logged("concat", -1, "ok")
  /\ file_size = <<2048, 0>>
  /\ StageLogged("upload")

\* C8: get_keys issues at most 3 queries, none after a successful one,
\* sleeps 1s then 2s between failed attempts and not after the last, and
\* returns None only after three failed attempts.
C8_GetKeysRetry ==
  (pc \in {"get_keys", "detect", "segment"}) =>
    LET n == Len(gk_log)
        failed == Cardinality({p \in 1..n : gk_log[p] = "error"})
    IN /\ n <= 3
       /\ \A p \in 1..(n - 1) : gk_log[p] = "error"
       /\ IF pc = "get_keys"
          THEN /\ failed = n
               /\ n <= 2
               /\ gk_sleeps = SubSeq(<<1, 2>>, 1, n)
          ELSE /\ n >= 1
               /\ (keys = "None") <=> (failed = 3)
               /\ keys # "None" => (keys = gk_log[n] /\ failed = n - 1)
               /\ gk_sleeps = SubSeq(<<1, 2>>, 1, IF failed = 3 THEN 2 ELSE failed)

C8_Witness ==
  /\ pc \in {"detect", "segment"}
  /\ keys = "None"
  /\ gk_log = <<"error", "error", "error">>
  /\ gk_sleeps = <<1, 2>>

\* C9: a timeout of an external tool (download, merge, concatenation) ends
\* the job as a process failure of that stage is meant to end it: the stage
\* is reported to the requester, the handler returns, and the process is
\* back in the directory it started from.
C9_TimeoutHandledAsFailure ==
  \A p \in 1..Len(log) :
    (log[p].stage \in ToolStages /\ log[p].outcome = "timeout") =>
      /\ pc = "done"
      /\ Last(replies) = FailReply(log[p].stage, log[p].seg)
      /\ cwd = 0

\* C10: every terminal failure of a job is surfaced to the requester as a
\* message naming the failing stage and, for the per-segment stages, the
\* index of the failing segment.
C10_EveryFailureReported ==
  (Terminal /\ JobAccepted /\ log # <<>> /\ Last(log).outcome # "ok") =>
    Last(replies) = FailReply(Last(log).stage, Last(log).seg)

\* C11: delivery is attempted at most 3 times, sleeping 5s then 10s between
\* failed attempts, and stops at the first success; after the third failure
\* the failure is reported, and once delivery has begun no planning,
\* download, merge or concatenation step runs again.
C11_DeliveryRetry ==
  LET ups == {p \in 1..Len(log) : log[p].stage = "upload"}
      n == Cardinality(ups)
      failed == Cardinality({p \in ups : log[p].outcome = "error"})
  IN /\ n <= 3
     /\ \A p \in ups : log[p].outcome = "ok" => p = Len(log)
     /\ \A p \in ups : \A q \in (p + 1)..Len(log) : log[q].stage = "upload"
     /\ n >= 1 => up_sleeps = SubSeq(<<5, 10>>, 1, IF failed = 3 THEN 2 ELSE failed)
     /\ pc = "upload" => (failed = n /\ n <= 2)
     /\ failed = 3 => (pc = "done" /\ Last(replies) = FailReply("upload", -1))
     /\ (n >= 1 /\ failed < 3 /\ pc # "upload") => Last(log).outcome = "ok"
     /\ n >= 1 => pc \in {"upload", "done", "raised"}

C11_Witness ==
  /\ pc = "done"
  /\ Len(log) >= 3
  /\ \A p \in (Len(log) - 2)..Len(log) : log[p] = LogEntry("upload", -1, "error")
  /\ up_sleeps = <<5, 10>>

StageIndex(st) ==
  CASE st = "keys" -> 1 [] st = "video" -> 2 [] st = "audio" -> 3
    [] st = "merge" -> 4 [] OTHER -> 5

\* C12: segments are processed strictly in plan order, segment i + 1 not
\* started before segment i completed all its stages, and the list given
\* to the concatenation tool has exactly one merged file per planned
\* segment, in segment order.
C12_OrderedSegmentsAndFileList ==
  /\ \A p \in 1..Len(log) : \A q \in (p + 1)..Len(log) :
       (log[p].stage \in SegmentStages /\ log[q].stage \in SegmentStages) =>
         \/ log[p].seg < log[q].seg
         \/ (log[p].seg = log[q].seg /\ StageIndex(log[p].stage) < StageIndex(log[q].stage))
  /\ \A p \in 1..Len(log) :
       (log[p].stage = "keys" /\ log[p].seg > 0) =>
         (p > 1 /\ log[p - 1] = LogEntry("merge", log[p].seg - 1, "ok"))
  /\ (pc = "get_keys" /\ gk_caller = "segment" /\ i > 0) =>
       Last(log) = LogEntry("merge", i - 1, "ok")
  /\ (pc = "concat" \/ StageLogged("concat")) =>
       /\ Len(file_list) = Len(segments)
       /\ \A k \in 1..Len(file_list) :
            file_list[k] = File(output_dir, "merged", k - 1, segments[k][1] \div 60)

C12_Witness ==
  /\ pc = "concat"
  /\ Len(file_list) = 3

\* C13: an error raised while the files or the working directory are
\* removed after a delivered job does not leave the handler.
C13_CleanupErrorsNotEscalated ==
  Logged("upload", -1, "ok") => pc # "raised"

\* A job has just begun: the intake accepted the message and nothing else
\* has happened.
JobJustStarted ==
  /\ pc = "get_keys"
  /\ gk_caller = "detect"
  /\ gk_log = <<>>
  /\ samples = <<>>

\* C14: any two jobs use distinct working directories, and a job never
\* starts with files of another job in its directory.
C14_DistinctWorkingDirectories ==
  /\ \A a \in 1..Len(job_dirs) : \A b \in (a + 1)..Len(job_dirs) :
       job_dirs[a] # job_dirs[b]
  /\ JobJustStarted => \A f \in files : f.dir # output_dir

\* The rotation events a sequence of sampled keys gives: the sample times
\* (start + 300 per step) at which the key differs from the one before.
RECURSIVE RotationsUpTo(_, _)
RotationsUpTo(smp, k) ==
  IF k < 2 THEN <<>>
  ELSE LET r == RotationsUpTo(smp, k - 1) IN
       IF smp[k] # smp[k - 1] THEN Append(r, start_dt + (k - 1) * 300) ELSE r

\* The record of the samples is still there: the job is sampling, or the
\* plan has just been returned.
SamplesOnRecord == JobAccepted /\ log = <<>>

\* C15: sampling records a rotation event at a sample exactly when its key
\* differs from the previous sample's key; for A, A, B, B at t0..t3 there is
\* one event, at t2, and the plan is [t0, t2), [t2, end).
C15_RotationEvents ==
  SamplesOnRecord =>
    /\ key_changes = RotationsUpTo(samples, Len(samples))
    /\ (Planned /\ samples = <<"A", "A", "B", "B">> /\ end_dt = start_dt + 1200) =>
         /\ key_changes = <<start_dt + 600>>
         /\ segments = <<<<start_dt, start_dt + 600>>, <<start_dt + 600, end_dt>>>>

C15_Witness ==
  /\ Planned
  /\ log = <<>>
  /\ samples = <<"A", "A", "B", "B">>
  /\ end_dt = start_dt + 1200
  /\ Len(segments) = 2

\* C16: when the key query of a sampling step fails, no further sample is
\* taken, the rotation events found so far are what sampling returns, and
\* the planner still hands back a non-empty plan; once the plan is there,
\* sampling does not resume.
C16_SamplingAbortsOnFailure ==
  [][ /\ (pc = "detect" /\ keys \in {"None", "empty"}) =>
           /\ key_changes' = key_changes
           /\ samples' = samples
           /\ Len(segments') >= 1
           /\ pc' = "get_keys" /\ gk_caller' = "segment"
      /\ Planned => (Planned' /\ key_changes' = key_changes)
    ]_vars

C16_Witness ==
  /\ Planned
  /\ log = <<>>
  /\ Len(key_changes) >= 1
  /\ start_dt + Len(samples) * 300 < end_dt
  /\ Len(segments) >= 2

\* C17: within a segment the stages run in the order key fetch, video,
\* audio, merge, each only after the one before succeeded, and a failed
\* stage is followed by no later stage of the segment.
C17_StageGating ==
  /\ \A p \in 1..Len(log) :
       /\ log[p].stage = "video" =>
            (p > 1 /\ log[p - 1] = LogEntry("keys", log[p].seg, "ok"))
       /\ log[p].stage = "audio" =>
            (p > 1 /\ log[p - 1] = LogEntry("video", log[p].seg, "ok"))
       /\ log[p].stage = "merge" =>
            (p > 1 /\ log[p - 1] = LogEntry("audio", log[p].seg, "ok"))
       /\ (log[p].stage \in SegmentStages /\ log[p].outcome # "ok") =>
            ~\E q \in (p + 1)..Len(log) : log[q].seg = log[p].seg
  /\ pc = "video" => (key \in Keys /\ Len(log) >= 1 /\ Last(log) = LogEntry("keys", i, "ok"))
  /\ pc = "audio" => (Len(log) >= 1 /\ Last(log) = LogEntry("video", i, "ok"))
  /\ pc = "merge" => (Len(log) >= 1 /\ Last(log) = LogEntry("audio", i, "ok"))

C17_Witness ==
  /\ pc = "merge"
  /\ i = 1

\* The first quarter-hour boundary at or after t.
QuarterAtOrAfter(t) == ((t + 899) \div 900) * 900

\* The fallback ran: sampling found no rotation, so one candidate segment
\* was in the list when the 15-minute slices were appended behind it.
FallbackUsed == Planned /\ key_changes = <<>>

FallbackSlices == SubSeq(segments, 2, Len(segments))

C19_WorkingDirectoryRestored ==
  (Terminal /\ output_dir # 0) => cwd = output_dir - 1

SegmentFileOf(kind, k) == File(output_dir, kind, k - 1, segments[k][1] \div 60)

\* C20: when segment i starts, the lists of video, audio and merged files
\* hold i entries each, entry k being segment k's file; at any time
\* len(merged) <= len(audio) <= len(video) <= len(merged) + 1, and every
\* segment file on disk is in its list.
C20_RecordedFiles ==
  /\ Len(merged_files) <= Len(audio_files)
  /\ Len(audio_files) <= Len(video_files)
  /\ Len(video_files) <= Len(merged_files) + 1
  /\ \A k \in 1..Len(video_files) : video_files[k] = SegmentFileOf("video", k)
  /\ \A k \in 1..Len(audio_files) : audio_files[k] = SegmentFileOf("audio", k)
  /\ \A k \in 1..Len(merged_files) : merged_files[k] = SegmentFileOf("merged", k)
  /\ ((pc = "get_keys" /\ gk_caller = "segment") \/ pc = "segment") =>
       /\ Len(video_files) = i
       /\ Len(audio_files) = i
       /\ Len(merged_files) = i
  /\ \A f \in files :
       /\ f.kind = "video" => \E k \in 1..Len(video_files) : video_files[k] = f
       /\ f.kind = "audio" => \E k \in 1..Len(audio_files) : audio_files[k] = f
       /\ f.kind = "merged" => \E k \in 1..Len(merged_files) : merged_files[k] = f

C20_Witness ==
  /\ pc = "segment"
  /\ i = 2
  /\ Len(video_files) = 2
  /\ Cardinality(files) = 6

====
